---- MODULE Spec2Model ----
(***************************************************************************)
(* Model of the secure-file-transfer encryption core (crypto_utils.py):    *)
(* key generation and text encoding, the single-shot container             *)
(* MAGIC || NONCE || CIPHERTEXT(+TAG), the streaming container             *)
(* NONCE || CIPHERTEXT || TAG, and decryption.                             *)
(*                                                                         *)
(* Bytes are integers 0..255, byte strings are sequences of bytes, text is *)
(* a sequence of one-character strings.                                    *)
(***************************************************************************)
EXTENDS Integers, Sequences, FiniteSets, TLC

(***************************************************************************)
(* Program constants.                                                      *)
(***************************************************************************)
MAGIC == <<83, 70, 84, 49>>          \* b"SFT1"
NONCE_SIZE == 12
KEY_SIZE == 32
TAG_SIZE == 16                       \* AES-GCM tag length used by AESGCM and by encryptor.tag
CHUNK_SIZE == 4194304                \* 4 * 1024 * 1024, the read size of the streaming loop

(***************************************************************************)
(* Byte helpers.                                                           *)
(***************************************************************************)
\* a XOR b on bytes.
BitXor(a, b) ==
    ((a + b) % 2)
      + 2 * (((a \div 2) + (b \div 2)) % 2)
      + 4 * (((a \div 4) + (b \div 4)) % 2)
      + 8 * (((a \div 8) + (b \div 8)) % 2)
      + 16 * (((a \div 16) + (b \div 16)) % 2)
      + 32 * (((a \div 32) + (b \div 32)) % 2)
      + 64 * (((a \div 64) + (b \div 64)) % 2)
      + 128 * (((a \div 128) + (b \div 128)) % 2)

RECURSIVE Pow2(_)
Pow2(n) == IF n = 0 THEN 1 ELSE 2 * Pow2(n - 1)

RECURSIVE SumSeq(_)
SumSeq(s) == IF s = <<>> THEN 0 ELSE Head(s) + SumSeq(Tail(s))

Min(a, b) == IF a < b THEN a ELSE b

\* s[a..b] of Python slicing, 1-based and inclusive here; empty when a > b.
Slice(s, a, b) == IF a > b THEN <<>> ELSE SubSeq(s, a, Min(b, Len(s)))

\* f.read(n) at 1-based offset pos: up to n bytes, fewer at end of file.
ReadAt(s, pos, n) == Slice(s, pos, pos + n - 1)

(***************************************************************************)
(* base64: the standard alphabet, and the URL-safe translation of its last *)
(* two characters.  "=" is the pad character.                              *)
(***************************************************************************)
B64Std ==
    << "A","B","C","D","E","F","G","H","I","J","K","L","M","N","O","P",
       "Q","R","S","T","U","V","W","X","Y","Z","a","b","c","d","e","f",
       "g","h","i","j","k","l","m","n","o","p","q","r","s","t","u","v",
       "w","x","y","z","0","1","2","3","4","5","6","7","8","9","+","/" >>

UrlSafeChars == ({B64Std[i] : i \in 1..62} \cup {"-", "_", "="})

\* bytes.translate of urlsafe_b64encode: "+" -> "-", "/" -> "_".
ToUrlSafe(c) == IF c = "+" THEN "-" ELSE IF c = "/" THEN "_" ELSE c

\* bytes.translate of urlsafe_b64decode: "-" -> "+", "_" -> "/".
FromUrlSafe(c) == IF c = "-" THEN "+" ELSE IF c = "_" THEN "/" ELSE c

\* Byte i of s, 0 past its end (the zero bits of an incomplete last group).
ByteOr0(s, i) == IF i <= Len(s) THEN s[i] ELSE 0

\* base64.b64encode: each group of 3 bytes gives 4 characters; an incomplete last
\* group is padded with "=".
b64encode(s) ==
    [c \in 1..(4 * ((Len(s) + 2) \div 3)) |->
        LET g  == (c - 1) \div 4
            m  == (c - 1) % 4
            b1 == ByteOr0(s, 3 * g + 1)
            b2 == ByteOr0(s, 3 * g + 2)
            b3 == ByteOr0(s, 3 * g + 3)
        IN  IF m = 0 THEN B64Std[(b1 \div 4) + 1]
            ELSE IF m = 1 THEN B64Std[((b1 % 4) * 16 + (b2 \div 16)) + 1]
            ELSE IF m = 2 THEN
                IF 3 * g + 2 > Len(s) THEN "=" ELSE B64Std[((b2 % 16) * 4 + (b3 \div 64)) + 1]
            ELSE IF 3 * g + 3 > Len(s) THEN "=" ELSE B64Std[(b3 % 64) + 1]]

urlsafe_b64encode(s) == LET e == b64encode(s) IN [i \in 1..Len(e) |-> ToUrlSafe(e[i])]

\* A faulty encoder: the standard alphabet, without the URL-safe translation.
encode_key_base64_std(key) == b64encode(key)

\* encode_key_base64: base64.urlsafe_b64encode(key).decode("ascii").
encode_key_base64(key) == urlsafe_b64encode(key)

\* table_a2b_base64: the value of each character of the standard alphabet.
B64Table == [c \in {B64Std[i] : i \in 1..64} |-> (CHOOSE i \in 1..64 : B64Std[i] = c) - 1]

\* Value of a character in the standard alphabet, 64 for any other character.
B64Value(c) == IF c \in DOMAIN B64Table THEN B64Table[c] ELSE 64

\* Characters outside ASCII: str.encode("ascii") raises on them.
NonAscii == {"é"}

IsData(c) == B64Value(c) < 64

\* quad_pos when the parser reaches character i: the data characters before it, mod 4.
QuadPos(t, i) == Cardinality({j \in 1..(i - 1) : IsData(t[j])}) % 4

\* pads when the parser reaches character i: the "=" seen since the last data character.
PadsBefore(t, i) ==
    Cardinality({j \in 1..(i - 1) : t[j] = "=" /\ \A k \in (j + 1)..(i - 1) : ~IsData(t[k])})

\* The "=" characters that complete a pad sequence; the parse ends at the first.
PadStops(t) ==
    {i \in 1..Len(t) : t[i] = "=" /\ QuadPos(t, i) >= 2
                        /\ QuadPos(t, i) + PadsBefore(t, i) + 1 >= 4}

\* binascii.a2b_base64 in its default, non-strict mode: characters outside the
\* alphabet are skipped, a complete pad sequence ends the parse, and a quad left
\* incomplete at the end of the input is an error.
a2b_base64(t) ==
    LET stops == PadStops(t)
        end   == IF stops = {} THEN Len(t) + 1 ELSE CHOOSE i \in stops : \A j \in stops : i <= j
        data  == SelectSeq(SubSeq(t, 1, end - 1), IsData)
        r     == Len(data) % 4
        v(k)  == IF k <= Len(data) THEN B64Value(data[k]) ELSE 0
        nb    == 3 * (Len(data) \div 4) + (IF r = 2 THEN 1 ELSE IF r = 3 THEN 2 ELSE 0)
    IN  IF stops = {} /\ r # 0
        THEN [ok |-> FALSE, val |-> <<>>, err |-> "binascii.Error"]
        ELSE [ok |-> TRUE, err |-> "",
              val |-> [b \in 1..nb |->
                        LET g == (b - 1) \div 3
                            m == (b - 1) % 3
                        IN  IF m = 0 THEN v(4 * g + 1) * 4 + (v(4 * g + 2) \div 16)
                            ELSE IF m = 1 THEN (v(4 * g + 2) % 16) * 16 + (v(4 * g + 3) \div 4)
                            ELSE (v(4 * g + 3) % 4) * 64 + v(4 * g + 4)]]

urlsafe_b64decode(t) == a2b_base64([i \in 1..Len(t) |-> FromUrlSafe(t[i])])

\* decode_key_base64: base64.urlsafe_b64decode(key_b64.encode("ascii")).
decode_key_base64(key_b64) ==
    IF \E i \in 1..Len(key_b64) : key_b64[i] \in NonAscii
    THEN [ok |-> FALSE, val |-> <<>>, err |-> "UnicodeEncodeError"]
    ELSE urlsafe_b64decode(key_b64)

(***************************************************************************)
(* AES-GCM, as the code uses it through the cryptography package.  The     *)
(* block cipher is abstracted by a keyed byte generator; the mode is kept: *)
(* counter-mode XOR of the plaintext with a key stream that depends on     *)
(* key, nonce and position, and a 16-byte tag that is a keyed polynomial   *)
(* hash of the whole ciphertext and its length, masked with a pad that     *)
(* depends on key and nonce.                                               *)
(***************************************************************************)
GHASH_MOD == 257

\* Stand-in for E(K, counter block i under nonce); ks is the key/nonce digest.
KeyStream(key, ks, i) == (ks + i * 29 + key[((i - 1) % Len(key)) + 1]) % 256

KeyStreamSeed(key, nonce) == (SumSeq(key) * 7 + SumSeq(nonce) * 13 + Len(key) + 5) % 256

\* Stand-in for the hash subkey H = E(K, 0); never zero.
HashKey(key) == ((SumSeq(key) + Len(key)) % (GHASH_MOD - 1)) + 1

\* One step of the polynomial hash over the ciphertext, h the hash subkey.
GHashStep(h, acc, c) == (acc * h + c) % GHASH_MOD

\* The hash of ct[i..], continued from acc.
RECURSIVE GHashFrom(_, _, _, _)
GHashFrom(h, acc, ct, i) ==
    IF i > Len(ct) THEN acc
    ELSE LET a == GHashStep(h, acc, ct[i]) IN
         IF a >= 0 THEN GHashFrom(h, a, ct, i + 1) ELSE 0

GHash(key, ct) == LET h == HashKey(key) IN IF h > 0 THEN GHashFrom(h, 0, ct, 1) ELSE 0

\* Stand-in for E(K, J0), the pad XORed onto the hash to give the tag.
TagMask(ts, j) == (ts + j * 11) % 256

TagSeed(key, nonce) == (SumSeq(key) * 3 + SumSeq(nonce) * 5 + 1) % 256

\* The tag for a ciphertext of n bytes whose hash is acc.
MakeTag(key, nonce, acc, n) ==
    LET ts == TagSeed(key, nonce) IN
    [j \in 1..TAG_SIZE |->
        BitXor(TagMask(ts, j),
               IF j = 1 THEN acc % 256
               ELSE IF j = 2 THEN acc \div 256
               ELSE IF j = 3 THEN n % 256
               ELSE IF j = 4 THEN (n \div 256) % 256
               ELSE 0)]

\* Counter mode over `data`, which starts at 0-based stream offset `off`.
CtrXor(key, nonce, off, data) ==
    LET ks == KeyStreamSeed(key, nonce) IN
    [i \in 1..Len(data) |-> BitXor(data[i], KeyStream(key, ks, off + i))]

\* AESGCM(key): ValueError unless the key has 128, 192 or 256 bits.
AESGCM_KeyOk(key) == Len(key) \in {16, 24, 32}

\* AESGCM(key).encrypt(nonce, data, None): ciphertext with the tag appended.
AESGCM_encrypt(key, nonce, data) ==
    LET ct == CtrXor(key, nonce, 0, data)
    IN  ct \o MakeTag(key, nonce, GHash(key, ct), Len(ct))

\* A decryption that skips the tag comparison (plain counter mode).
AESGCM_decrypt_unauthenticated(key, nonce, data) ==
    IF Len(nonce) < 8 \/ Len(nonce) > 128
    THEN [ok |-> FALSE, val |-> <<>>, err |-> "ValueError:nonce"]
    ELSE IF Len(data) < TAG_SIZE
    THEN [ok |-> FALSE, val |-> <<>>, err |-> "InvalidTag"]
    ELSE [ok |-> TRUE, val |-> CtrXor(key, nonce, 0, Slice(data, 1, Len(data) - TAG_SIZE)),
          err |-> ""]

\* AESGCM(key).decrypt(nonce, data, None): the nonce length is checked first, then
\* the tag over the whole ciphertext; the plaintext is released only if it matches.
AESGCM_decrypt(key, nonce, data) ==
    IF Len(nonce) < 8 \/ Len(nonce) > 128
    THEN [ok |-> FALSE, val |-> <<>>, err |-> "ValueError:nonce"]
    ELSE IF Len(data) < TAG_SIZE
    THEN [ok |-> FALSE, val |-> <<>>, err |-> "InvalidTag"]
    ELSE LET ct  == Slice(data, 1, Len(data) - TAG_SIZE)
             tag == Slice(data, Len(data) - TAG_SIZE + 1, Len(data))
         IN  IF tag = MakeTag(key, nonce, GHash(key, ct), Len(ct))
             THEN [ok |-> TRUE, val |-> CtrXor(key, nonce, 0, ct), err |-> ""]
             ELSE [ok |-> FALSE, val |-> <<>>, err |-> "InvalidTag"]

(***************************************************************************)
(* Inputs and bounds.                                                      *)
(***************************************************************************)
MaxCalls == 2          \* calls of the three entry points in one run
PoolSize == 2          \* distinct outcomes of each size the random source can give
ExampleLen == 57       \* length of the long example plaintext
MaxRlCalls == 32       \* calls of _rate_limited by the busy caller
MaxOtherCalls == 1     \* calls of _rate_limited by the other caller

\* os.urandom(KEY_SIZE) outcomes the model draws from.
KeyOf(j) == [i \in 1..KEY_SIZE |-> (i * 37 * j + 251 - j) % 256]
KeyPool == { KeyOf(j) : j \in 1..PoolSize }

\* os.urandom(NONCE_SIZE) outcomes; the first of them starts with the bytes of MAGIC.
NonceOf(j) ==
    IF j = 1 THEN MAGIC \o [i \in 1..(NONCE_SIZE - 4) |-> 200 + i]
    ELSE [i \in 1..NONCE_SIZE |-> (i * j + 7 * j) % 256]
NoncePool == { NonceOf(j) : j \in 1..PoolSize }

\* Contents of the plaintext file handed to the encryption entry points.
Plaintexts == { <<>>, <<0>>, <<255, 1, 170>> }

\* The long example: a plaintext of ExampleLen bytes.
Example == [i \in 1..ExampleLen |-> (i * 3 + 65) % 256]

\* Short keys an outside party may encode and pass as key text.
Key16 == [i \in 1..16 |-> i + 100]
Key31 == [i \in 1..31 |-> i + 50]

\* The random tapes: a starting point in the key pool and one in the nonce pool.
Tapes == [key : 0..(PoolSize - 1), nonce : 0..(PoolSize - 1)]

Path(base, n, ext) == [base |-> base, n |-> n, ext |-> ext]
NonePath == Path("None", 0, <<>>)                   \* Python's None for output_path
InPath == Path("in", 0, <<>>)                       \* the plaintext file
OutPath == Path("out", 0, <<>>)                     \* an explicit output_path
StreamPath == Path("blob", 0, <<".enc">>)           \* the sink of the streaming flow
MissingPath == Path("missing", 0, <<".enc">>)       \* a path with no file
NoDirPath == Path("nodir", 0, <<".enc">>)           \* a path in a directory that does not exist

\* open(path, "wb") succeeds: the directory of the path exists.
Writable(path) == path.base # "nodir"

Procs == {"p1", "p2"}
MainProc == "p1"

VARIABLES
    fs,      \* the file system: a function from the existing paths to their bytes
    tape,    \* the random source: where in each pool its outcomes start
    drawn,   \* values os.urandom has returned so far
    ntemp,   \* number of paths tempfile.mkstemp has handed out
    calls,   \* number of entry-point calls made so far
    limit,   \* number of entry-point calls the run makes at most
    pc,      \* per process: the statement it is at
    fr,      \* per process: the local variables of the running function
    ret,     \* per process: what the last call returned or raised
    did,     \* per process: library operations the running call has invoked
    made,    \* history: for each container path, what the encryption that wrote it used
    mut,     \* history: for each container path, the corruption applied in transit
    uses,    \* history: the (key, nonce) pair each encryption call ran the cipher with
    wrote,   \* history: the container bytes each encryption call left behind
    kc,      \* the key codec on its own: a raw key, its text, the text decoded
    flow,    \* the calling flow in progress: the /upload handler, the sender or the receiver
    rl,      \* the web application's request log and clock, with the decision of each call
    web      \* the /delete handler: the request in hand, the response, the objects deleted

\* The state of the calling layer, which the functions of crypto_utils never touch.
appVars == <<flow, rl, web>>

vars == <<fs, tape, drawn, ntemp, calls, limit, pc, fr, ret, did, made, mut, uses, wrote, kc,
          flow, rl, web>>

BlankFrame ==
    [ op |-> "none", id |-> 0, fs0 |-> <<>>,
      file_path |-> NonePath, encrypted_file_path |-> NonePath, output_path |-> NonePath,
      temp_path |-> NonePath, key_base64 |-> <<>>,
      plaintext |-> <<>>, key |-> <<>>, nonce |-> <<>>, ciphertext |-> <<>>,
      header |-> <<>>, file_like |-> <<>>, chunk |-> <<>>, ct |-> <<>>,
      encryptor |-> [pos |-> 0, acc |-> 0, finalized |-> FALSE] ]

NoRet == [kind |-> "none", val |-> <<>>, exc |-> ""]
Returned(v) == [kind |-> "ok", val |-> v, exc |-> ""]
Raised(e) == [kind |-> "raise", val |-> <<>>, exc |-> e]

NoKey ==
    [stage |-> "none", key |-> <<>>, text |-> <<>>, change |-> "none",
     decoded |-> [ok |-> FALSE, val |-> <<>>, err |-> ""]]

\* No calling flow is in progress.
NoFlow ==
    [kind |-> "none", at |-> "idle", end |-> "none", exc |-> "", keep_local |-> FALSE,
     temps |-> {}, path |-> NonePath, calls0 |-> 0,
     arg |-> NonePath, body |-> <<>>, key_base64 |-> <<>>, output |-> NonePath]

\* The callers of the web application, by address.
Ips == {"a", "b"}

\* _request_log = {} at import, the clock at its first instant, and no call made:
\* `admitted` is the history of the timestamps of the calls that returned False.
NoLog ==
    [now |-> 0, log |-> <<>>, admitted |-> [ip \in Ips |-> <<>>], ncalls |-> [ip \in Ips |-> 0],
     last |-> [ip |-> "", result |-> FALSE]]

\* Python values of the request layer: None is the empty tuple, a string is a
\* one-element tuple holding it.
None == <<>>
Str(s) == <<s>>

\* No /delete request in hand, nothing deleted, and DELETE_TOKEN at its default ''.
NoWeb ==
    [DELETE_TOKEN |-> Str(""), at |-> "idle", req |-> <<>>, token |-> None, bucket |-> None,
     object_key |-> None, status |-> 0, called |-> FALSE, deleted |-> {}]

\* The calling layer at rest.
AppIdle ==
    /\ flow = NoFlow
    /\ rl = NoLog
    /\ web = NoWeb

Resting(p) == pc[p] \in {"idle", "done", "failed"}

\* f with x mapped to v, x added to the domain when it is new.
Put(f, x, v) == [y \in (DOMAIN f) \cup {x} |-> IF y = x THEN v ELSE f[y]]

Init ==
    /\ \E p \in Plaintexts : fs = [x \in {InPath} |-> p]
    /\ tape \in Tapes
    /\ drawn = {}
    /\ ntemp = 0
    /\ calls = 0
    /\ limit = MaxCalls
    /\ pc = [p \in Procs |-> "idle"]
    /\ fr = [p \in Procs |-> BlankFrame]
    /\ ret = [p \in Procs |-> NoRet]
    /\ did = [p \in Procs |-> {}]
    /\ made = <<>>
    /\ mut = <<>>
    /\ uses = {}
    /\ wrote = {}
    /\ kc = NoKey
    /\ AppIdle

\* The running function raises e: the call ends with no return value.
Raise(p, e) ==
    /\ pc' = [pc EXCEPT ![p] = "failed"]
    /\ ret' = [ret EXCEPT ![p] = Raised(e)]

Goto(p, l) ==
    /\ pc' = [pc EXCEPT ![p] = l]
    /\ UNCHANGED ret

Did(p, e) == did' = [did EXCEPT ![p] = @ \cup {e}]

\* A call of an entry point: a fresh frame for the callee.
Enter(p, l, frame) ==
    /\ Resting(p)
    /\ calls < limit
    /\ calls' = calls + 1
    /\ pc' = [pc EXCEPT ![p] = l]
    /\ fr' = [fr EXCEPT ![p] = [frame EXCEPT !.id = calls + 1, !.fs0 = fs]]
    /\ ret' = [ret EXCEPT ![p] = NoRet]
    /\ did' = [did EXCEPT ![p] = {}]
    /\ UNCHANGED <<tape, fs, drawn, ntemp, limit, made, mut, uses, wrote, kc, appVars>>

(***************************************************************************)
(* generate_aes256_key and os.urandom(NONCE_SIZE).  The random source is   *)
(* taken to be ideal: a value it returned once is not returned again.  Its *)
(* outcomes are read off the pools, starting where the tape says and going *)
(* round once.                                                             *)
(***************************************************************************)
generate_aes256_key ==
    LET n == Cardinality(drawn \cap KeyPool)
    IN  IF n < PoolSize THEN {KeyOf(((tape.key + n) % PoolSize) + 1)} ELSE {}

urandom_nonce ==
    LET n == Cardinality(drawn \cap NoncePool)
    IN  IF n < PoolSize THEN {NonceOf(((tape.nonce + n) % PoolSize) + 1)} ELSE {}

(***************************************************************************)
(* encrypt_file(file_path)                                                 *)
(***************************************************************************)
CallEncryptFile(p) ==
    Enter(p, "ef_read", [BlankFrame EXCEPT !.op = "encrypt_file", !.file_path = InPath])

\* with open(file_path, "rb") as f: plaintext = f.read()
ef_read(p) ==
    /\ pc[p] = "ef_read"
    /\ IF fr[p].file_path \in DOMAIN fs
       THEN /\ fr' = [fr EXCEPT ![p].plaintext = fs[fr[p].file_path]]
            /\ Goto(p, "ef_key")
       ELSE /\ Raise(p, "FileNotFoundError")
            /\ UNCHANGED fr
    /\ UNCHANGED <<tape, fs, drawn, ntemp, calls, limit, did, made, mut, uses, wrote, kc, appVars>>

\* key = generate_aes256_key()
ef_key(p) ==
    /\ pc[p] = "ef_key"
    /\ \E k \in generate_aes256_key :
          /\ fr' = [fr EXCEPT ![p].key = k]
          /\ drawn' = drawn \cup {k}
    /\ Goto(p, "ef_nonce")
    /\ Did(p, "key")
    /\ UNCHANGED <<tape, fs, ntemp, calls, limit, made, mut, uses, wrote, kc, appVars>>

\* A faulty nonce: the same constant in every call.
ef_nonce_fixed(p) == {NonceOf(1)}

\* The nonce encrypt_file uses: a new draw.
ef_nonce_source(p) == urandom_nonce

\* nonce = os.urandom(NONCE_SIZE)
ef_nonce(p) ==
    /\ pc[p] = "ef_nonce"
    /\ \E n \in ef_nonce_source(p) :
          /\ fr' = [fr EXCEPT ![p].nonce = n]
          /\ drawn' = drawn \cup {n}
    /\ Goto(p, "ef_encrypt")
    /\ Did(p, "nonce")
    /\ UNCHANGED <<tape, fs, ntemp, calls, limit, made, mut, uses, wrote, kc, appVars>>

\* aesgcm = AESGCM(key); ciphertext = aesgcm.encrypt(nonce, plaintext, None)
ef_encrypt(p) ==
    /\ pc[p] = "ef_encrypt"
    /\ fr' = [fr EXCEPT ![p].ciphertext =
                 AESGCM_encrypt(fr[p].key, fr[p].nonce, fr[p].plaintext)]
    /\ uses' = uses \cup {[id |-> fr[p].id, key |-> fr[p].key, nonce |-> fr[p].nonce]}
    /\ Goto(p, "ef_mkstemp")
    /\ Did(p, "aead")
    /\ UNCHANGED <<tape, fs, drawn, ntemp, calls, limit, made, mut, wrote, kc, appVars>>

\* A faulty temporary name: picked from the names that exist, and not created
\* (tempfile.mktemp instead of mkstemp).
ef_mktemp_unsafe(p) ==
    /\ pc[p] = "ef_mkstemp"
    /\ LET t == Path("tmp", Cardinality({x \in DOMAIN fs : x.base = "tmp"}) + 1, <<".enc">>) IN
          fr' = [fr EXCEPT ![p].temp_path = t]
    /\ Goto(p, "ef_write")
    /\ UNCHANGED <<tape, fs, ntemp, drawn, calls, limit, did, made, mut, uses, wrote, kc, appVars>>

\* fd, temp_path = tempfile.mkstemp(suffix=".enc"); os.close(fd)
ef_mkstemp(p) ==
    /\ pc[p] = "ef_mkstemp"
    /\ LET t == Path("tmp", ntemp + 1, <<".enc">>) IN
          /\ fr' = [fr EXCEPT ![p].temp_path = t]
          /\ fs' = Put(fs, t, <<>>)
    /\ ntemp' = ntemp + 1
    /\ Goto(p, "ef_write")
    /\ UNCHANGED <<tape, drawn, calls, limit, did, made, mut, uses, wrote, kc, appVars>>

\* Faulty containers: the marker left out, and the marker written after the nonce.
ef_container_no_magic(magic, nonce, ciphertext) == nonce \o ciphertext

ef_container_swapped(magic, nonce, ciphertext) == nonce \o magic \o ciphertext

\* The bytes encrypt_file writes to the container, in order.
ef_container(magic, nonce, ciphertext) == magic \o nonce \o ciphertext

\* with open(temp_path, "wb") as out: out.write(MAGIC); out.write(nonce);
\* out.write(ciphertext)
ef_write(p) ==
    /\ pc[p] = "ef_write"
    /\ fs' = Put(fs, fr[p].temp_path, ef_container(MAGIC, fr[p].nonce, fr[p].ciphertext))
    /\ Goto(p, "ef_return")
    /\ Did(p, "write")
    /\ UNCHANGED <<tape, drawn, ntemp, calls, limit, fr, made, mut, uses, wrote, kc, appVars>>

\* return temp_path, encode_key_base64(key)
ef_return(p) ==
    /\ pc[p] = "ef_return"
    /\ pc' = [pc EXCEPT ![p] = "done"]
    /\ ret' = [ret EXCEPT ![p] = Returned(<<fr[p].temp_path, encode_key_base64(fr[p].key)>>)]
    /\ made' = Put(made, fr[p].temp_path,
                   [kind |-> "single", id |-> fr[p].id, plaintext |-> fr[p].plaintext,
                    key |-> fr[p].key, nonce |-> fr[p].nonce,
                    key_text |-> encode_key_base64(fr[p].key)])
    /\ mut' = Put(mut, fr[p].temp_path, [kind |-> "none", pos |-> 0, bit |-> 0])
    /\ wrote' = wrote \cup {[id |-> fr[p].id, bytes |-> fs[fr[p].temp_path]]}
    /\ UNCHANGED <<tape, fs, drawn, ntemp, calls, limit, fr, did, uses, kc, appVars>>

(***************************************************************************)
(* decrypt_file(encrypted_file_path, key_base64, output_path)              *)
(***************************************************************************)
\* A key text cut short of its last character: its padding is incorrect.
BadPadding == SubSeq(encode_key_base64(KeyOf(1)), 1, 4 * ((KEY_SIZE + 2) \div 3) - 1)

\* Key texts a caller may pass: the encoding of each key the random source can
\* give, the encoding of a 16-byte key, and a text that does not decode.
KeyTexts == { encode_key_base64(k) : k \in KeyPool } \cup { encode_key_base64(Key16), BadPadding }

\* The arguments of a call of decrypt_file: a container with any key text and
\* output path, or a path that holds no container.
DecryptArgs ==
    { <<path, kt, out>> : path \in DOMAIN made, kt \in KeyTexts, out \in {NonePath, OutPath} }
      \cup { <<InPath, BadPadding, NonePath>>, <<MissingPath, BadPadding, NonePath>> }

CallDecryptFile(p) ==
    \E a \in DecryptArgs :
        Enter(p, "df_read",
              [BlankFrame EXCEPT !.op = "decrypt_file", !.encrypted_file_path = a[1],
                                 !.key_base64 = a[2], !.output_path = a[3]])

\* A faulty check that accepts every header.
df_header_ok_any(header) == TRUE

\* A faulty check that compares only the first three bytes of the marker.
df_header_ok_prefix(header) ==
    Len(header) >= 3 /\ SubSeq(header, 1, 3) = SubSeq(MAGIC, 1, 3)

\* The check decrypt_file makes on the bytes it read first.
df_header_ok(header) == header = MAGIC

\* with open(encrypted_file_path, "rb") as f: header = f.read(len(MAGIC));
\* if header != MAGIC: raise ValueError; nonce = f.read(NONCE_SIZE); ciphertext = f.read()
df_read(p) ==
    /\ pc[p] = "df_read"
    /\ IF fr[p].encrypted_file_path \notin DOMAIN fs
       THEN /\ Raise(p, "FileNotFoundError")
            /\ UNCHANGED <<fr, did>>
       ELSE LET data == fs[fr[p].encrypted_file_path]
                header == ReadAt(data, 1, Len(MAGIC))
            IN  /\ Did(p, "read_header")
                /\ IF ~df_header_ok(header)
                   THEN /\ Raise(p, "ValueError:MAGIC")
                        /\ fr' = [fr EXCEPT ![p].header = header]
                   ELSE /\ Goto(p, "df_key")
                        /\ fr' = [fr EXCEPT
                              ![p].header = header,
                              ![p].nonce = ReadAt(data, Len(MAGIC) + 1, NONCE_SIZE),
                              ![p].ciphertext =
                                  Slice(data, Len(MAGIC) + NONCE_SIZE + 1, Len(data))]
    /\ UNCHANGED <<tape, fs, drawn, ntemp, calls, limit, made, mut, uses, wrote, kc, appVars>>

\* key = decode_key_base64(key_base64); aesgcm = AESGCM(key)
df_key(p) ==
    /\ pc[p] = "df_key"
    /\ Did(p, "decode_key")
    /\ LET r == decode_key_base64(fr[p].key_base64) IN
          IF ~r.ok
          THEN /\ Raise(p, r.err)
               /\ UNCHANGED fr
          ELSE /\ fr' = [fr EXCEPT ![p].key = r.val]
               /\ IF AESGCM_KeyOk(r.val) THEN Goto(p, "df_decrypt")
                                         ELSE Raise(p, "ValueError:key")
    /\ UNCHANGED <<tape, fs, drawn, ntemp, calls, limit, made, mut, uses, wrote, kc, appVars>>

\* A faulty decryption step that creates the output file before the tag is
\* verified.
df_decrypt_opens_first(p) ==
    /\ pc[p] = "df_decrypt"
    /\ Did(p, "aead")
    /\ fs' = Put(fs, IF fr[p].output_path = NonePath
                     THEN [fr[p].encrypted_file_path EXCEPT !.ext = Append(@, ".decrypted")]
                     ELSE fr[p].output_path, <<>>)
    /\ LET r == AESGCM_decrypt(fr[p].key, fr[p].nonce, fr[p].ciphertext) IN
          IF r.ok
          THEN /\ fr' = [fr EXCEPT ![p].plaintext = r.val]
               /\ Goto(p, "df_open_out")
          ELSE /\ Raise(p, r.err)
               /\ UNCHANGED fr
    /\ UNCHANGED <<tape, drawn, ntemp, calls, limit, made, mut, uses, wrote, kc, appVars>>

\* plaintext = aesgcm.decrypt(nonce, ciphertext, None)
df_decrypt(p) ==
    /\ pc[p] = "df_decrypt"
    /\ Did(p, "aead")
    /\ LET r == AESGCM_decrypt(fr[p].key, fr[p].nonce, fr[p].ciphertext) IN
          IF r.ok
          THEN /\ fr' = [fr EXCEPT ![p].plaintext = r.val]
               /\ Goto(p, "df_open_out")
          ELSE /\ Raise(p, r.err)
               /\ UNCHANGED fr
    /\ UNCHANGED <<tape, fs, drawn, ntemp, calls, limit, made, mut, uses, wrote, kc, appVars>>

\* The output path decrypt_file picks when none is given.
DefaultOutput(path) ==
    IF Len(path.ext) > 0 /\ path.ext[Len(path.ext)] = ".enc"
    THEN [path EXCEPT !.ext = SubSeq(path.ext, 1, Len(path.ext) - 1)]
    ELSE [path EXCEPT !.ext = Append(path.ext, ".decrypted")]

\* if output_path is None: ...; open(output_path, "wb")
df_open_out(p) ==
    /\ pc[p] = "df_open_out"
    /\ LET o == IF fr[p].output_path = NonePath
                THEN DefaultOutput(fr[p].encrypted_file_path)
                ELSE fr[p].output_path
       IN  /\ fr' = [fr EXCEPT ![p].output_path = o]
           /\ fs' = Put(fs, o, <<>>)
    /\ Goto(p, "df_write")
    /\ Did(p, "open_out")
    /\ UNCHANGED <<tape, drawn, ntemp, calls, limit, made, mut, uses, wrote, kc, appVars>>

\* out.write(plaintext); return output_path
df_write(p) ==
    /\ pc[p] = "df_write"
    /\ fs' = Put(fs, fr[p].output_path, fr[p].plaintext)
    /\ pc' = [pc EXCEPT ![p] = "done"]
    /\ ret' = [ret EXCEPT ![p] = Returned(fr[p].output_path)]
    /\ Did(p, "write")
    /\ UNCHANGED <<tape, drawn, ntemp, calls, limit, fr, made, mut, uses, wrote, kc, appVars>>

(***************************************************************************)
(* encrypt_stream_to_file(file_like, output_path)                          *)
(***************************************************************************)
\* Lengths a source may deliver on a short read.
ShortReads == {1, 2}

\* Lengths file_like.read(CHUNK_SIZE) may return with `remaining` bytes left:
\* the full request, or less when the source delivers a short read.
ReadLens(remaining) ==
    {Min(remaining, CHUNK_SIZE)} \cup {l \in ShortReads : l <= remaining}

CallEncryptStream(p) ==
    Enter(p, "es_key",
          [BlankFrame EXCEPT !.op = "encrypt_stream_to_file", !.file_like = fs[InPath],
                             !.plaintext = fs[InPath], !.output_path = StreamPath])

\* key = generate_aes256_key()
es_key(p) ==
    /\ pc[p] = "es_key"
    /\ \E k \in generate_aes256_key :
          /\ fr' = [fr EXCEPT ![p].key = k]
          /\ drawn' = drawn \cup {k}
    /\ Goto(p, "es_nonce")
    /\ Did(p, "key")
    /\ UNCHANGED <<tape, fs, ntemp, calls, limit, made, mut, uses, wrote, kc, appVars>>

\* nonce = os.urandom(NONCE_SIZE)
es_nonce(p) ==
    /\ pc[p] = "es_nonce"
    /\ \E n \in urandom_nonce :
          /\ fr' = [fr EXCEPT ![p].nonce = n]
          /\ drawn' = drawn \cup {n}
    /\ Goto(p, "es_cipher")
    /\ Did(p, "nonce")
    /\ UNCHANGED <<tape, fs, ntemp, calls, limit, made, mut, uses, wrote, kc, appVars>>

\* cipher = Cipher(algorithms.AES(key), modes.GCM(nonce), ...); encryptor = cipher.encryptor()
es_cipher(p) ==
    /\ pc[p] = "es_cipher"
    /\ fr' = [fr EXCEPT ![p].encryptor = [pos |-> 0, acc |-> 0, finalized |-> FALSE]]
    /\ uses' = uses \cup {[id |-> fr[p].id, key |-> fr[p].key, nonce |-> fr[p].nonce]}
    /\ Goto(p, "es_open")
    /\ Did(p, "aead")
    /\ UNCHANGED <<tape, fs, drawn, ntemp, calls, limit, made, mut, wrote, kc, appVars>>

\* with open(output_path, "wb") as out:
es_open(p) ==
    /\ pc[p] = "es_open"
    /\ IF Writable(fr[p].output_path)
       THEN /\ fs' = Put(fs, fr[p].output_path, <<>>)
            /\ Goto(p, "es_write_nonce")
       ELSE /\ Raise(p, "FileNotFoundError")
            /\ UNCHANGED fs
    /\ UNCHANGED <<tape, drawn, ntemp, calls, limit, fr, did, made, mut, uses, wrote, kc, appVars>>

\* out.write(nonce)
es_write_nonce(p) ==
    /\ pc[p] = "es_write_nonce"
    /\ fs' = [fs EXCEPT ![fr[p].output_path] = @ \o fr[p].nonce]
    /\ Goto(p, "es_read")
    /\ Did(p, "write")
    /\ UNCHANGED <<tape, drawn, ntemp, calls, limit, fr, made, mut, uses, wrote, kc, appVars>>

\* A faulty loop exit that leaves for the return without finalizing the cipher.
es_read_skips_finalize(p) ==
    /\ pc[p] = "es_read"
    /\ IF fr[p].file_like = <<>>
       THEN /\ fr' = [fr EXCEPT ![p].chunk = <<>>]
            /\ Goto(p, "es_return")
       ELSE /\ \E l \in ReadLens(Len(fr[p].file_like)) :
                  fr' = [fr EXCEPT ![p].chunk = SubSeq(fr[p].file_like, 1, l),
                                   ![p].file_like = SubSeq(@, l + 1, Len(@))]
            /\ Goto(p, "es_update")
    /\ UNCHANGED <<tape, fs, drawn, ntemp, calls, limit, did, made, mut, uses, wrote, kc, appVars>>

\* chunk = file_like.read(4 * 1024 * 1024); if not chunk: break
es_read(p) ==
    /\ pc[p] = "es_read"
    /\ IF fr[p].file_like = <<>>
       THEN /\ fr' = [fr EXCEPT ![p].chunk = <<>>]
            /\ Goto(p, "es_finalize")
       ELSE /\ \E l \in ReadLens(Len(fr[p].file_like)) :
                  fr' = [fr EXCEPT ![p].chunk = SubSeq(fr[p].file_like, 1, l),
                                   ![p].file_like = SubSeq(@, l + 1, Len(@))]
            /\ Goto(p, "es_update")
    /\ UNCHANGED <<tape, fs, drawn, ntemp, calls, limit, did, made, mut, uses, wrote, kc, appVars>>

\* A faulty update that starts the key stream over with every chunk.
encryptor_update_restart(key, nonce, encryptor, chunk) == CtrXor(key, nonce, 0, chunk)

\* A faulty update that starts every chunk on a new counter block.
encryptor_update_block_aligned(key, nonce, encryptor, chunk) ==
    CtrXor(key, nonce, 16 * ((encryptor.pos + 15) \div 16), chunk)

\* encryptor.update(chunk): the ciphertext of the chunk, at the cipher's position.
encryptor_update(key, nonce, encryptor, chunk) == CtrXor(key, nonce, encryptor.pos, chunk)

\* ct = encryptor.update(chunk); if ct: out.write(ct)
es_update(p) ==
    /\ pc[p] = "es_update"
    /\ LET e  == fr[p].encryptor
           ct == encryptor_update(fr[p].key, fr[p].nonce, e, fr[p].chunk)
       IN  /\ fr' = [fr EXCEPT
                 ![p].ct = ct,
                 ![p].encryptor = [e EXCEPT !.pos = e.pos + Len(ct),
                                            !.acc = GHashFrom(HashKey(fr[p].key), e.acc, ct, 1)]]
           /\ fs' = [fs EXCEPT ![fr[p].output_path] = @ \o ct]
    /\ Goto(p, "es_read")
    /\ UNCHANGED <<tape, drawn, ntemp, calls, limit, did, made, mut, uses, wrote, kc, appVars>>

\* encryptor.finalize()
es_finalize(p) ==
    /\ pc[p] = "es_finalize"
    /\ fr' = [fr EXCEPT ![p].encryptor.finalized = TRUE]
    /\ Goto(p, "es_write_tag")
    /\ Did(p, "finalize")
    /\ UNCHANGED <<tape, fs, drawn, ntemp, calls, limit, made, mut, uses, wrote, kc, appVars>>

\* encryptor.tag: the tag over everything update() was given.
encryptor_tag(key, nonce, encryptor) == MakeTag(key, nonce, encryptor.acc, encryptor.pos)

\* out.write(encryptor.tag)
es_write_tag(p) ==
    /\ pc[p] = "es_write_tag"
    /\ fs' = [fs EXCEPT ![fr[p].output_path] =
                 @ \o encryptor_tag(fr[p].key, fr[p].nonce, fr[p].encryptor)]
    /\ Goto(p, "es_return")
    /\ Did(p, "write_tag")
    /\ UNCHANGED <<tape, drawn, ntemp, calls, limit, fr, made, mut, uses, wrote, kc, appVars>>

\* return output_path, encode_key_base64(key)
es_return(p) ==
    /\ pc[p] = "es_return"
    /\ pc' = [pc EXCEPT ![p] = "done"]
    /\ ret' = [ret EXCEPT ![p] = Returned(<<fr[p].output_path, encode_key_base64(fr[p].key)>>)]
    /\ made' = Put(made, fr[p].output_path,
                   [kind |-> "stream", id |-> fr[p].id, plaintext |-> fr[p].plaintext,
                    key |-> fr[p].key, nonce |-> fr[p].nonce,
                    key_text |-> encode_key_base64(fr[p].key)])
    /\ mut' = Put(mut, fr[p].output_path, [kind |-> "none", pos |-> 0, bit |-> 0])
    /\ wrote' = wrote \cup {[id |-> fr[p].id, bytes |-> fs[fr[p].output_path]]}
    /\ UNCHANGED <<tape, fs, drawn, ntemp, calls, limit, fr, did, uses, kc, appVars>>

(***************************************************************************)
(* The container in transit: between calls, an outside party may flip one  *)
(* bit of a container or cut it short.                                     *)
(***************************************************************************)
FlipBit(path) ==
    /\ \A p \in Procs : Resting(p)
    /\ calls < limit
    /\ path \in DOMAIN made
    /\ mut[path].kind = "none"
    /\ \E i \in 1..Len(fs[path]), b \in 0..7 :
          /\ fs' = [fs EXCEPT ![path][i] = BitXor(@, Pow2(b))]
          /\ mut' = [mut EXCEPT ![path] = [kind |-> "flip", pos |-> i, bit |-> b]]
    /\ UNCHANGED <<tape, drawn, ntemp, calls, limit, pc, fr, ret, did, made, uses, wrote, kc, appVars>>

Truncate(path) ==
    /\ \A p \in Procs : Resting(p)
    /\ calls < limit
    /\ path \in DOMAIN made
    /\ mut[path].kind = "none"
    /\ \E n \in 0..(Len(fs[path]) - 1) :
          /\ fs' = [fs EXCEPT ![path] = SubSeq(@, 1, n)]
          /\ mut' = [mut EXCEPT ![path] = [kind |-> "trunc", pos |-> n, bit |-> 0]]
    /\ UNCHANGED <<tape, drawn, ntemp, calls, limit, pc, fr, ret, did, made, uses, wrote, kc, appVars>>

(***************************************************************************)
(* Spec: a caller makes up to MaxCalls calls of the entry points, one      *)
(* after another.                                                          *)
(***************************************************************************)
EncryptFileSteps ==
    \/ \E p \in Procs : ef_read(p)
    \/ \E p \in Procs : ef_key(p)
    \/ \E p \in Procs : ef_nonce(p)
    \/ \E p \in Procs : ef_encrypt(p)
    \/ \E p \in Procs : ef_mkstemp(p)
    \/ \E p \in Procs : ef_write(p)
    \/ \E p \in Procs : ef_return(p)

DecryptFileSteps ==
    \/ \E p \in Procs : df_read(p)
    \/ \E p \in Procs : df_key(p)
    \/ \E p \in Procs : df_decrypt(p)
    \/ \E p \in Procs : df_open_out(p)
    \/ \E p \in Procs : df_write(p)

EncryptStreamSteps ==
    \/ \E p \in Procs : es_key(p)
    \/ \E p \in Procs : es_nonce(p)
    \/ \E p \in Procs : es_cipher(p)
    \/ \E p \in Procs : es_open(p)
    \/ \E p \in Procs : es_write_nonce(p)
    \/ \E p \in Procs : es_read(p)
    \/ \E p \in Procs : es_update(p)
    \/ \E p \in Procs : es_finalize(p)
    \/ \E p \in Procs : es_write_tag(p)
    \/ \E p \in Procs : es_return(p)

Next ==
    \/ CallEncryptFile(MainProc)
    \/ CallDecryptFile(MainProc)
    \/ CallEncryptStream(MainProc)
    \/ EncryptFileSteps
    \/ DecryptFileSteps
    \/ EncryptStreamSteps

Spec == Init /\ [][Next]_vars

(***************************************************************************)
(* SpecOrder: the calls of Spec, and encryption calls that fail: of a file *)
(* that does not exist, and into a sink that cannot be opened.             *)
(***************************************************************************)
CallEncryptMissing(p) ==
    Enter(p, "ef_read", [BlankFrame EXCEPT !.op = "encrypt_file", !.file_path = MissingPath])

CallEncryptStreamNoDir(p) ==
    Enter(p, "es_key",
          [BlankFrame EXCEPT !.op = "encrypt_stream_to_file", !.file_like = fs[InPath],
                             !.plaintext = fs[InPath], !.output_path = NoDirPath])

NextOrder ==
    \/ Next
    \/ CallEncryptMissing(MainProc)
    \/ CallEncryptStreamNoDir(MainProc)

SpecOrder == Init /\ [][NextOrder]_vars

(***************************************************************************)
(* SpecConc: each process makes one call of an entry point, and the steps  *)
(* of the two calls interleave freely.  Every call writes to a sink of its *)
(* own: a path that does not exist and that no call in progress is about   *)
(* to create.  A container an earlier encrypt_file wrote is on disk, for   *)
(* decrypt_file to be one of the calls.                                    *)
(***************************************************************************)
\* The container on disk at the start, and what the encryption that wrote it drew.
EarlierPath == Path("tmp", 0, <<".enc">>)
EarlierKey == KeyOf(PoolSize + 1)
EarlierNonce == NonceOf(PoolSize + 1)

\* The sink each process gives to encrypt_stream_to_file.
SinkOf(p) == Path("blob", IF p = MainProc THEN 0 ELSE 1, <<".enc">>)

\* The path the call in frame f writes to (None for encrypt_file before mkstemp).
SinkOfCall(f) ==
    IF f.op = "encrypt_file" THEN f.temp_path
    ELSE IF f.op = "encrypt_stream_to_file" THEN f.output_path
    ELSE IF f.op = "decrypt_file"
    THEN (IF f.output_path = NonePath THEN DefaultOutput(f.encrypted_file_path)
          ELSE f.output_path)
    ELSE NonePath

\* No file is at `sink` and no call in progress writes there.
OwnSink(p, sink) ==
    /\ sink \notin DOMAIN fs
    /\ \A q \in Procs \ {p} : Resting(q) \/ SinkOfCall(fr[q]) # sink

CallEncryptStreamTo(p, out) ==
    /\ OwnSink(p, out)
    /\ Enter(p, "es_key",
             [BlankFrame EXCEPT !.op = "encrypt_stream_to_file", !.file_like = fs[InPath],
                                !.plaintext = fs[InPath], !.output_path = out])

\* A decryption of a finished container with the key text its encryption
\* returned or one that does not decode, into the default output path.
CallDecryptOf(p, path, key_base64) ==
    /\ OwnSink(p, DefaultOutput(path))
    /\ Enter(p, "df_read",
             [BlankFrame EXCEPT !.op = "decrypt_file", !.encrypted_file_path = path,
                                !.key_base64 = key_base64])

InitConc ==
    /\ \E p \in Plaintexts :
          /\ fs = [x \in {InPath, EarlierPath} |->
                     IF x = InPath THEN p
                     ELSE ef_container(MAGIC, EarlierNonce,
                                       AESGCM_encrypt(EarlierKey, EarlierNonce, p))]
          /\ made = [x \in {EarlierPath} |->
                       [kind |-> "single", id |-> 0, plaintext |-> p, key |-> EarlierKey,
                        nonce |-> EarlierNonce, key_text |-> encode_key_base64(EarlierKey)]]
    /\ tape \in {t \in Tapes : t.key = t.nonce}
    /\ drawn = {EarlierKey, EarlierNonce}
    /\ ntemp = 0
    /\ calls = 0
    /\ limit = Cardinality(Procs)
    /\ pc = [p \in Procs |-> "idle"]
    /\ fr = [p \in Procs |-> BlankFrame]
    /\ ret = [p \in Procs |-> NoRet]
    /\ did = [p \in Procs |-> {}]
    /\ mut = [x \in {EarlierPath} |-> [kind |-> "none", pos |-> 0, bit |-> 0]]
    /\ uses = {}
    /\ wrote = {}
    /\ kc = NoKey
    /\ AppIdle

NextConc ==
    \/ \E p \in Procs : CallEncryptFile(p)
    \/ \E p \in Procs : CallEncryptStreamTo(p, SinkOf(p))
    \/ \E p \in Procs : \E path \in DOMAIN made :
          \E kt \in {made[path].key_text, BadPadding} : CallDecryptOf(p, path, kt)
    \/ EncryptFileSteps
    \/ EncryptStreamSteps
    \/ DecryptFileSteps

SpecConc == InitConc /\ [][NextConc]_vars

(***************************************************************************)
(* SpecFile: the single-shot path on its own, encrypt_file and             *)
(* decrypt_file, with the long example among the plaintexts.               *)
(***************************************************************************)
InitFile ==
    /\ \E p \in Plaintexts \cup {Example} : fs = [x \in {InPath} |-> p]
    /\ tape \in Tapes
    /\ drawn = {}
    /\ ntemp = 0
    /\ calls = 0
    /\ limit = MaxCalls
    /\ pc = [p \in Procs |-> "idle"]
    /\ fr = [p \in Procs |-> BlankFrame]
    /\ ret = [p \in Procs |-> NoRet]
    /\ did = [p \in Procs |-> {}]
    /\ made = <<>>
    /\ mut = <<>>
    /\ uses = {}
    /\ wrote = {}
    /\ kc = NoKey
    /\ AppIdle

NextFile ==
    \/ CallEncryptFile(MainProc)
    \/ CallDecryptFile(MainProc)
    \/ EncryptFileSteps
    \/ DecryptFileSteps

SpecFile == InitFile /\ [][NextFile]_vars

(***************************************************************************)
(* SpecTransit: one transfer.  encrypt_file writes a container, the        *)
(* container may be corrupted on its way, decrypt_file reads it.           *)
(***************************************************************************)
InitTransit ==
    /\ \E p \in Plaintexts : fs = [x \in {InPath} |-> p]
    /\ tape \in Tapes
    /\ drawn = {}
    /\ ntemp = 0
    /\ calls = 0
    /\ limit = 2
    /\ pc = [p \in Procs |-> "idle"]
    /\ fr = [p \in Procs |-> BlankFrame]
    /\ ret = [p \in Procs |-> NoRet]
    /\ did = [p \in Procs |-> {}]
    /\ made = <<>>
    /\ mut = <<>>
    /\ uses = {}
    /\ wrote = {}
    /\ kc = NoKey
    /\ AppIdle

NextTransit ==
    \/ (made = <<>> /\ CallEncryptFile(MainProc))
    \/ CallDecryptFile(MainProc)
    \/ EncryptFileSteps
    \/ DecryptFileSteps
    \/ \E path \in DOMAIN made : FlipBit(path)
    \/ \E path \in DOMAIN made : Truncate(path)

SpecTransit == InitTransit /\ [][NextTransit]_vars
(***************************************************************************)
(* SpecKey: the key codec on its own.  A raw key of some length is         *)
(* encoded, the text may be changed on its way, and the text is decoded.   *)
(***************************************************************************)
KeyLengths == {16, 24, 31, KEY_SIZE, KEY_SIZE + 1}
KeySlopes == {1, 37, 255}
RawKeys == { [i \in 1..n |-> (a * i + b) % 256] : n \in KeyLengths, a \in KeySlopes, b \in 0..63 }

\* Ways a key text may be changed between encode and decode.
TextChanges == {"drop_last", "newline", "nonascii", "std_alphabet", "cut_group"}

Changed(t, c) ==
    IF c = "drop_last" THEN SubSeq(t, 1, Len(t) - 1)
    ELSE IF c = "newline" THEN <<t[1], "\n">> \o SubSeq(t, 2, Len(t))
    ELSE IF c = "nonascii" THEN <<"é">> \o t
    ELSE IF c = "std_alphabet" THEN [i \in 1..Len(t) |-> FromUrlSafe(t[i])]
    ELSE SubSeq(t, 5, Len(t))

InitKey ==
    /\ fs = [x \in {InPath} |-> <<>>]
    /\ tape \in Tapes
    /\ drawn = {}
    /\ ntemp = 0
    /\ calls = 0
    /\ limit = 0
    /\ pc = [p \in Procs |-> "idle"]
    /\ fr = [p \in Procs |-> BlankFrame]
    /\ ret = [p \in Procs |-> NoRet]
    /\ did = [p \in Procs |-> {}]
    /\ made = <<>>
    /\ mut = <<>>
    /\ uses = {}
    /\ wrote = {}
    /\ \E k \in RawKeys : kc = [NoKey EXCEPT !.stage = "key", !.key = k]
    /\ AppIdle

KcEncode ==
    /\ kc.stage = "key"
    /\ kc' = [kc EXCEPT !.stage = "text", !.text = encode_key_base64(kc.key)]
    /\ UNCHANGED <<tape, fs, drawn, ntemp, calls, limit, pc, fr, ret, did, made, mut, uses, wrote, appVars>>

KcChange ==
    /\ kc.stage = "text"
    /\ kc.change = "none"
    /\ \E c \in TextChanges : kc' = [kc EXCEPT !.text = Changed(kc.text, c), !.change = c]
    /\ UNCHANGED <<tape, fs, drawn, ntemp, calls, limit, pc, fr, ret, did, made, mut, uses, wrote, appVars>>

KcDecode ==
    /\ kc.stage = "text"
    /\ kc' = [kc EXCEPT !.stage = "decoded", !.decoded = decode_key_base64(kc.text)]
    /\ UNCHANGED <<tape, fs, drawn, ntemp, calls, limit, pc, fr, ret, did, made, mut, uses, wrote, appVars>>

NextKey == KcEncode \/ KcChange \/ KcDecode

SpecKey == InitKey /\ [][NextKey]_vars
(***************************************************************************)
(* The calling flows: the /upload handler of app.py, the sender CLI and    *)
(* the receiver CLI.  A flow runs on MainProc and calls encrypt_file or    *)
(* decrypt_file through the steps above.  The collaborators (S3, the       *)
(* presigner, the QR writer, the HTTP download, the template renderer) may *)
(* each return or raise.                                                   *)
(***************************************************************************)
\* Everything of the crypto layer but the file system and the mkstemp counter.
cryptoVars == <<tape, drawn, calls, limit, pc, fr, ret, did, made, mut, uses, wrote, kc>>

\* os.remove(x); an OSError (no such file) is swallowed by the callers.
Remove(f, x) == [y \in (DOMAIN f) \ {x} |-> f[y]]

\* The flow moves to statement l.
FlowTo(l) == flow' = [flow EXCEPT !.at = l]

\* The flow ends by returning.
FlowReturn == flow' = [flow EXCEPT !.at = "end", !.end = "returned"]

\* The flow ends with an exception that nothing catches.
FlowRaise(e) == flow' = [flow EXCEPT !.at = "end", !.end = "raised", !.exc = e]

\* A collaborator call between statements: it returns and the flow goes on to
\* `next`, or it raises and the exception leaves the flow.
Collaborator(here, next, name) ==
    /\ flow.at = here
    /\ \/ FlowTo(next)
       \/ FlowRaise(name)
    /\ UNCHANGED <<fs, ntemp, cryptoVars, rl, web>>


\* The call into crypto_utils the flow made has ended.
FlowCallEnded == calls > flow.calls0 /\ Resting(MainProc)

CallDecryptWith(p, path, key_base64, out) ==
    Enter(p, "df_read",
          [BlankFrame EXCEPT !.op = "decrypt_file", !.encrypted_file_path = path,
                             !.key_base64 = key_base64, !.output_path = out])

\* sender.py main(): --file and --keep-local.
StartSender ==
    /\ flow = NoFlow
    /\ \E file \in {InPath, MissingPath}, keep \in BOOLEAN :
          flow' = [NoFlow EXCEPT !.kind = "sender", !.at = "s_isfile", !.arg = file,
                                 !.keep_local = keep]
    /\ UNCHANGED <<fs, ntemp, cryptoVars, rl, web>>

\* if not os.path.isfile(plaintext_path): ... return 1
s_isfile ==
    /\ flow.at = "s_isfile"
    /\ IF flow.arg \in DOMAIN fs
       THEN flow' = [flow EXCEPT !.at = "s_encrypt", !.calls0 = calls]
       ELSE FlowReturn
    /\ UNCHANGED <<fs, ntemp, cryptoVars, rl, web>>

\* encrypted_path, key_b64 = encrypt_file(plaintext_path): the call
s_encrypt ==
    /\ flow.at = "s_encrypt"
    /\ calls = flow.calls0
    /\ CallEncryptFile(MainProc)

\* encrypted_path, key_b64 = encrypt_file(plaintext_path): the return
s_encrypted ==
    /\ flow.at = "s_encrypt"
    /\ FlowCallEnded
    /\ IF pc[MainProc] = "done"
       THEN flow' = [flow EXCEPT !.at = "s_upload", !.path = ret[MainProc].val[1],
                                 !.temps = @ \cup {ret[MainProc].val[1]}]
       ELSE FlowRaise(ret[MainProc].exc)
    /\ UNCHANGED <<fs, ntemp, cryptoVars, rl, web>>

\* object_key = upload_to_s3(file_path=encrypted_path, ...)
s_upload == Collaborator("s_upload", "s_presign", "upload_to_s3")

\* url = generate_presigned_url(...)
s_presign == Collaborator("s_presign", "s_qr", "generate_presigned_url")

\* qr_path = create_qr_code(url, output_path=args.qr_out)
s_qr == Collaborator("s_qr", "s_remove", "create_qr_code")

\* if not args.keep_local: try: os.remove(encrypted_path) except OSError: pass
s_remove ==
    /\ flow.at = "s_remove"
    /\ fs' = IF flow.keep_local THEN fs ELSE Remove(fs, flow.path)
    /\ FlowTo("s_done")
    /\ UNCHANGED <<ntemp, cryptoVars, rl, web>>

\* print("Done."); return 0
s_done ==
    /\ flow.at = "s_done"
    /\ FlowReturn
    /\ UNCHANGED <<fs, ntemp, cryptoVars, rl, web>>

\* What the presigned URL may deliver: a container encrypt_file wrote for the
\* plaintext, or bytes that are no container.
Downloads(p) ==
    { ef_container(MAGIC, EarlierNonce, AESGCM_encrypt(EarlierKey, EarlierNonce, p)),
      <<1, 2, 3>> }

\* receiver.py main(): --url, --key-base64 and --output.
StartReceiver ==
    /\ flow = NoFlow
    /\ \E body \in Downloads(fs[InPath]),
          kt \in {encode_key_base64(EarlierKey), BadPadding},
          out \in {NonePath, OutPath} :
          flow' = [NoFlow EXCEPT !.kind = "receiver", !.at = "r_get", !.body = body,
                                 !.key_base64 = kt, !.output = out]
    /\ UNCHANGED <<fs, ntemp, cryptoVars, rl, web>>

\* resp = requests.get(url, stream=True, timeout=60); resp.raise_for_status()
r_get == Collaborator("r_get", "r_mkstemp", "requests.get")

\* fd, temp_path = tempfile.mkstemp(suffix=".enc"); os.close(fd)
r_mkstemp ==
    /\ flow.at = "r_mkstemp"
    /\ LET t == Path("tmp", ntemp + 1, <<".enc">>) IN
          /\ fs' = Put(fs, t, <<>>)
          /\ flow' = [flow EXCEPT !.at = "r_write", !.path = t, !.temps = @ \cup {t}]
    /\ ntemp' = ntemp + 1
    /\ UNCHANGED <<cryptoVars, rl, web>>

\* with open(temp_path, "wb") as f: for chunk in resp.iter_content(...): f.write(chunk)
\* The download may break off after any number of bytes.
r_write ==
    /\ flow.at = "r_write"
    /\ \/ /\ fs' = [fs EXCEPT ![flow.path] = flow.body]
          /\ flow' = [flow EXCEPT !.at = "r_decrypt", !.calls0 = calls]
       \/ /\ \E n \in 0..Len(flow.body) : fs' = [fs EXCEPT ![flow.path] = SubSeq(flow.body, 1, n)]
          /\ FlowRaise("iter_content")
    /\ UNCHANGED <<ntemp, cryptoVars, rl, web>>

\* out_path = decrypt_file(encrypted_path, args.key_base64, args.output): the call
r_decrypt ==
    /\ flow.at = "r_decrypt"
    /\ calls = flow.calls0
    /\ CallDecryptWith(MainProc, flow.path, flow.key_base64, flow.output)

\* out_path = decrypt_file(...): the return
r_decrypted ==
    /\ flow.at = "r_decrypt"
    /\ FlowCallEnded
    /\ IF pc[MainProc] = "done" THEN FlowTo("r_remove") ELSE FlowRaise(ret[MainProc].exc)
    /\ UNCHANGED <<fs, ntemp, cryptoVars, rl, web>>

\* try: os.remove(encrypted_path) except OSError: pass
r_remove ==
    /\ flow.at = "r_remove"
    /\ fs' = Remove(fs, flow.path)
    /\ FlowTo("r_done")
    /\ UNCHANGED <<ntemp, cryptoVars, rl, web>>

\* print("Done."); return 0
r_done ==
    /\ flow.at = "r_done"
    /\ FlowReturn
    /\ UNCHANGED <<fs, ntemp, cryptoVars, rl, web>>

\* app.py upload(): the uploaded file is the plaintext.
StartUpload ==
    /\ flow = NoFlow
    /\ flow' = [NoFlow EXCEPT !.kind = "upload", !.at = "u_validate", !.body = fs[InPath]]
    /\ UNCHANGED <<fs, ntemp, cryptoVars, rl, web>>

\* abort(400) for a missing file or an invalid filename, abort(500) without AWS_BUCKET
u_validate == Collaborator("u_validate", "u_mkstemp", "abort")

\* plaintext_tmp_fd, plaintext_tmp_path = tempfile.mkstemp(dir='tmp', suffix=suffix)
u_mkstemp ==
    /\ flow.at = "u_mkstemp"
    /\ LET t == Path("tmp", ntemp + 1, <<".txt">>) IN
          /\ fs' = Put(fs, t, <<>>)
          /\ flow' = [flow EXCEPT !.at = "u_copy", !.path = t, !.temps = @ \cup {t}]
    /\ ntemp' = ntemp + 1
    /\ UNCHANGED <<cryptoVars, rl, web>>

\* Inside try: a collaborator returns and the handler goes on to `next`, or it
\* raises and control passes to the finally clause with the exception pending.
TryCollaborator(here, next, name) ==
    /\ flow.at = here
    /\ \/ FlowTo(next)
       \/ flow' = [flow EXCEPT !.at = "u_finally", !.exc = name]
    /\ UNCHANGED <<fs, ntemp, cryptoVars, rl, web>>

\* with file.stream as in_stream, open(plaintext_tmp_path, 'wb') as out: copy in chunks
u_copy ==
    /\ flow.at = "u_copy"
    /\ \/ /\ fs' = [fs EXCEPT ![flow.path] = flow.body]
          /\ FlowTo("u_s3")
       \/ /\ \E n \in 0..Len(flow.body) : fs' = [fs EXCEPT ![flow.path] = SubSeq(flow.body, 1, n)]
          /\ flow' = [flow EXCEPT !.at = "u_finally", !.exc = "in_stream.read"]
    /\ UNCHANGED <<ntemp, cryptoVars, rl, web>>

\* upload_to_s3(file_path=plaintext_tmp_path, ...)
u_s3 == TryCollaborator("u_s3", "u_presign", "upload_to_s3")

\* presigned_url = generate_presigned_url(...)
u_presign == TryCollaborator("u_presign", "u_qr", "generate_presigned_url")

\* create_qr_code(download_link, output_path=qr_path)
u_qr == TryCollaborator("u_qr", "u_render", "create_qr_code")

\* return render_template("result.html", ...)
u_render == TryCollaborator("u_render", "u_finally", "render_template")

\* finally: try: os.remove(plaintext_tmp_path) except OSError: pass
u_finally ==
    /\ flow.at = "u_finally"
    /\ fs' = Remove(fs, flow.path)
    /\ IF flow.exc = "" THEN FlowReturn ELSE FlowRaise(flow.exc)
    /\ UNCHANGED <<ntemp, cryptoVars, rl, web>>

SenderSteps ==
    \/ s_isfile \/ s_encrypt \/ s_encrypted \/ s_upload \/ s_presign \/ s_qr
    \/ s_remove \/ s_done

ReceiverSteps ==
    \/ r_get \/ r_mkstemp \/ r_write \/ r_decrypt \/ r_decrypted \/ r_remove \/ r_done

UploadSteps ==
    \/ u_validate \/ u_mkstemp \/ u_copy \/ u_s3 \/ u_presign \/ u_qr \/ u_render
    \/ u_finally

(***************************************************************************)
(* SpecFlows: one calling flow from start to end.                          *)
(***************************************************************************)
NextFlows ==
    \/ StartSender
    \/ StartReceiver
    \/ StartUpload
    \/ SenderSteps
    \/ ReceiverSteps
    \/ UploadSteps
    \/ EncryptFileSteps
    \/ DecryptFileSteps

SpecFlows == Init /\ [][NextFlows]_vars

(***************************************************************************)
(* _rate_limited(ip) of app.py, with time.time() in whole seconds.         *)
(***************************************************************************)
REQUEST_WINDOW_SECONDS == 60
MAX_REQUESTS_PER_WINDOW == 30

\* The instants at which calls arrive: the start, one second later, and the first
\* instant at which the start has left the window while the second has not.
Clock == {0, 1, REQUEST_WINDOW_SECONDS + 1}

\* _request_log.get(ip, [])
LogGet(log, ip) == IF ip \in DOMAIN log THEN log[ip] ELSE <<>>

\* A faulty pruning that keeps only the timestamps of the current instant.
rl_prune_to_now(reqs, window_start) ==
    SelectSeq(reqs, LAMBDA t : t >= window_start + REQUEST_WINDOW_SECONDS)

\* reqs = [t for t in reqs if t >= window_start]
rl_prune(reqs, window_start) == SelectSeq(reqs, LAMBDA t : t >= window_start)

\* The body of _rate_limited at time `now`: the new log and the value returned.
rate_limited(log, ip, now) ==
    LET window_start == now - REQUEST_WINDOW_SECONDS
        reqs == rl_prune(LogGet(log, ip), window_start)
    IN  IF Len(reqs) >= MAX_REQUESTS_PER_WINDOW
        THEN [log |-> Put(log, ip, reqs), result |-> TRUE]
        ELSE [log |-> Put(log, ip, Append(reqs, now)), result |-> FALSE]

\* The number of calls the run makes for each caller.
CallsOf(ip) == IF ip = "a" THEN MaxRlCalls ELSE MaxOtherCalls

\* One call of _rate_limited(ip), at an instant not before the last call's.
CallRateLimited(ip) ==
    /\ rl.ncalls[ip] < CallsOf(ip)
    /\ \E now \in {t \in Clock : t >= rl.now} :
          LET r == rate_limited(rl.log, ip, now) IN
          rl' = [now |-> now,
                 log |-> r.log,
                 admitted |-> [rl.admitted EXCEPT ![ip] = IF r.result THEN @ ELSE Append(@, now)],
                 ncalls |-> [rl.ncalls EXCEPT ![ip] = @ + 1],
                 last |-> [ip |-> ip, result |-> r.result]]
    /\ UNCHANGED <<fs, ntemp, cryptoVars, flow, web>>

(***************************************************************************)
(* SpecRate: the rate limiter on its own, called for two callers.          *)
(***************************************************************************)
InitRate ==
    /\ fs = [x \in {InPath} |-> <<>>]
    /\ tape = [key |-> 0, nonce |-> 0]
    /\ drawn = {}
    /\ ntemp = 0
    /\ calls = 0
    /\ limit = 0
    /\ pc = [p \in Procs |-> "idle"]
    /\ fr = [p \in Procs |-> BlankFrame]
    /\ ret = [p \in Procs |-> NoRet]
    /\ did = [p \in Procs |-> {}]
    /\ made = <<>>
    /\ mut = <<>>
    /\ uses = {}
    /\ wrote = {}
    /\ kc = NoKey
    /\ AppIdle

NextRate == \E ip \in Ips : CallRateLimited(ip)

SpecRate == InitRate /\ [][NextRate]_vars

(***************************************************************************)
(* The /delete handler of app.py.                                          *)
(***************************************************************************)
\* Python truthiness of None and of a string.
Truthy(v) == v # None /\ v # Str("")

\* a or b
Or(a, b) == IF Truthy(a) THEN a ELSE b

\* The tokens, bucket names and object keys a request may carry.
TokenValues == {None, Str(""), Str("s3cret"), Str("other")}
FieldValues == {None, Str(""), Str("x")}

\* A request is either a form post, whose body is not JSON, or a JSON post, whose
\* form is empty and whose body is an object, another JSON value, or unparsable.
NoFields == [token |-> None, bucket |-> None, key |-> None]
FormRequests ==
    {[is_json |-> FALSE, header |-> h, form |-> [token |-> t, bucket |-> b, key |-> k],
      json |-> "none", object |-> NoFields] :
        h \in TokenValues, t \in TokenValues, b \in FieldValues, k \in FieldValues}
JsonRequests ==
    {[is_json |-> TRUE, header |-> h, form |-> NoFields, json |-> "object",
      object |-> [token |-> None, bucket |-> b, key |-> k]] :
        h \in TokenValues, b \in FieldValues, k \in FieldValues}
    \cup {[is_json |-> TRUE, header |-> h, form |-> NoFields, json |-> j, object |-> NoFields] :
            h \in TokenValues, j \in {"malformed", "nonobject"}}
DeleteRequests == FormRequests \cup JsonRequests

\* request.json.get(name): a body that does not parse is a 400 (BadRequest), a
\* parsed value that is no object has no .get, which is a 500 (AttributeError).
JsonGet(req, name) ==
    CASE req.json = "object" -> [status |-> 0, value |-> req.object[name]]
      [] req.json = "malformed" -> [status |-> 400, value |-> None]
      [] OTHER -> [status |-> 500, value |-> None]

\* request.form.get(name) or request.json.get(name) if request.is_json
\*     else request.form.get(name)
FieldOf(req, name) ==
    IF req.is_json
    THEN IF Truthy(req.form[name])
         THEN [status |-> 0, value |-> req.form[name]]
         ELSE JsonGet(req, name)
    ELSE [status |-> 0, value |-> req.form[name]]

\* not token or token != DELETE_TOKEN
d_unauthorized(token, configured) == ~Truthy(token) \/ token # configured

\* The handler's response: abort(status), or the return of line 175.
Respond(status) == web' = [web EXCEPT !.at = "done", !.status = status]

\* A request arrives at the handler.
StartDelete ==
    /\ web.at \in {"idle", "done"}
    /\ \E req \in DeleteRequests :
          web' = [web EXCEPT !.at = "token", !.req = req, !.token = None, !.bucket = None,
                             !.object_key = None, !.status = 0, !.called = FALSE]
    /\ UNCHANGED <<fs, ntemp, cryptoVars, flow, rl>>

\* token = request.form.get('token') or request.headers.get('X-Delete-Token')
d_token ==
    /\ web.at = "token"
    /\ web' = [web EXCEPT !.at = "bucket", !.token = Or(web.req.form.token, web.req.header)]
    /\ UNCHANGED <<fs, ntemp, cryptoVars, flow, rl>>

\* bucket = ...
d_bucket ==
    /\ web.at = "bucket"
    /\ LET r == FieldOf(web.req, "bucket") IN
       IF r.status # 0
       THEN Respond(r.status)
       ELSE web' = [web EXCEPT !.at = "key", !.bucket = r.value]
    /\ UNCHANGED <<fs, ntemp, cryptoVars, flow, rl>>

\* object_key = ...
d_key ==
    /\ web.at = "key"
    /\ LET r == FieldOf(web.req, "key") IN
       IF r.status # 0
       THEN Respond(r.status)
       ELSE web' = [web EXCEPT !.at = "auth", !.object_key = r.value]
    /\ UNCHANGED <<fs, ntemp, cryptoVars, flow, rl>>

\* if not token or token != DELETE_TOKEN: abort(401)
d_auth ==
    /\ web.at = "auth"
    /\ IF d_unauthorized(web.token, web.DELETE_TOKEN)
       THEN Respond(401)
       ELSE web' = [web EXCEPT !.at = "args"]
    /\ UNCHANGED <<fs, ntemp, cryptoVars, flow, rl>>

\* if not bucket or not object_key: abort(400)
d_args ==
    /\ web.at = "args"
    /\ IF ~Truthy(web.bucket) \/ ~Truthy(web.object_key)
       THEN Respond(400)
       ELSE web' = [web EXCEPT !.at = "s3"]
    /\ UNCHANGED <<fs, ntemp, cryptoVars, flow, rl>>

\* delete_from_s3(bucket, object_key) deletes and the handler returns, or it
\* raises and the handler aborts with 400.
d_s3 ==
    /\ web.at = "s3"
    /\ \/ web' = [web EXCEPT !.at = "done", !.status = 200, !.called = TRUE,
                             !.deleted = @ \cup {<<web.bucket, web.object_key>>}]
       \/ web' = [web EXCEPT !.at = "done", !.status = 400, !.called = TRUE]
    /\ UNCHANGED <<fs, ntemp, cryptoVars, flow, rl>>

(***************************************************************************)
(* SpecDelete: requests to /delete, with DELETE_TOKEN unset or set.        *)
(***************************************************************************)
InitDelete ==
    /\ fs = [x \in {InPath} |-> <<>>]
    /\ tape = [key |-> 0, nonce |-> 0]
    /\ drawn = {}
    /\ ntemp = 0
    /\ calls = 0
    /\ limit = 0
    /\ pc = [p \in Procs |-> "idle"]
    /\ fr = [p \in Procs |-> BlankFrame]
    /\ ret = [p \in Procs |-> NoRet]
    /\ did = [p \in Procs |-> {}]
    /\ made = <<>>
    /\ mut = <<>>
    /\ uses = {}
    /\ wrote = {}
    /\ kc = NoKey
    /\ flow = NoFlow
    /\ rl = NoLog
    /\ \E t \in {Str(""), Str("s3cret")} : web = [NoWeb EXCEPT !.DELETE_TOKEN = t]

NextDelete ==
    \/ StartDelete
    \/ d_token
    \/ d_bucket
    \/ d_key
    \/ d_auth
    \/ d_args
    \/ d_s3

SpecDelete == InitDelete /\ [][NextDelete]_vars

(***************************************************************************)
(* Properties.                                                             *)
(***************************************************************************)
IsDecrypt(p) == fr[p].op = "decrypt_file"

\* The call of p reads a container that an encryption of this run wrote.
ReadsContainer(p, kind) ==
    /\ IsDecrypt(p)
    /\ fr[p].encrypted_file_path \in DOMAIN made
    /\ made[fr[p].encrypted_file_path].kind = kind

\* ... and was given the key text that encryption returned.
WithReturnedKey(p) ==
    fr[p].key_base64 = made[fr[p].encrypted_file_path].key_text

\* C1: decrypt_file on the untouched container encrypt_file wrote, with the key
\* text that call returned, ends normally and the file at the returned path holds
\* exactly the plaintext that was encrypted, the empty plaintext included.
C1_RoundTrip ==
    \A p \in Procs :
        ( /\ Resting(p)
          /\ ReadsContainer(p, "single")
          /\ mut[fr[p].encrypted_file_path].kind = "none"
          /\ WithReturnedKey(p) )
        => /\ pc[p] = "done"
           /\ ret[p].kind = "ok"
           /\ ret[p].val \in DOMAIN fs
           /\ fs[ret[p].val] = made[fr[p].encrypted_file_path].plaintext

C1_Witness ==
    \E p \in Procs :
        /\ pc[p] = "done"
        /\ ReadsContainer(p, "single")
        /\ WithReturnedKey(p)
        /\ made[fr[p].encrypted_file_path].plaintext = Example
        /\ fs[ret[p].val] = Example

\* The call of p reads a container with one bit flipped behind the header.
FlippedBehindHeader(p) ==
    /\ ReadsContainer(p, "single")
    /\ mut[fr[p].encrypted_file_path].kind = "flip"
    /\ mut[fr[p].encrypted_file_path].pos > Len(MAGIC) + NONCE_SIZE

\* C2: when one bit of the ciphertext or tag of a container is flipped,
\* decrypt_file with the right key never opens an output file, and ends by raising
\* InvalidTag with the file system as it was.
C2_TamperDetected ==
    \A p \in Procs :
        (FlippedBehindHeader(p) /\ WithReturnedKey(p))
        => /\ "open_out" \notin did[p]
           /\ fs = fr[p].fs0
           /\ pc[p] # "done"
           /\ Resting(p) => (ret[p] = Raised("InvalidTag"))

C2_Witness ==
    \E p \in Procs :
        /\ FlippedBehindHeader(p)
        /\ WithReturnedKey(p)
        /\ mut[fr[p].encrypted_file_path].pos
               <= Len(fs[fr[p].encrypted_file_path]) - TAG_SIZE
        /\ pc[p] = "failed"
        /\ ret[p] = Raised("InvalidTag")

\* The first bytes of the file the call of p was given are not the marker.
WrongMarker(p) ==
    /\ IsDecrypt(p)
    /\ fr[p].encrypted_file_path \in DOMAIN fr[p].fs0
    /\ ReadAt(fr[p].fs0[fr[p].encrypted_file_path], 1, Len(MAGIC)) # MAGIC

\* C3: when the first 4 bytes of the input are not "SFT1", decrypt_file raises the
\* MAGIC-mismatch ValueError as soon as it has read them: the key text is never
\* decoded and the cipher is never invoked, whatever the key text is.
C3_MarkerFirst ==
    \A p \in Procs :
        WrongMarker(p)
        => /\ "decode_key" \notin did[p]
           /\ "aead" \notin did[p]
           /\ pc[p] \in {"df_read", "failed"}
           /\ pc[p] = "failed" => ret[p] = Raised("ValueError:MAGIC")

C3_Witness ==
    \E p \in Procs :
        /\ WrongMarker(p)
        /\ ReadsContainer(p, "single")
        /\ mut[fr[p].encrypted_file_path].kind = "flip"
        /\ fr[p].key_base64 = BadPadding
        /\ ~decode_key_base64(fr[p].key_base64).ok
        /\ ret[p] = Raised("ValueError:MAGIC")
\* The file the call of p was given is shorter than marker plus nonce.
ShortInput(p) ==
    /\ IsDecrypt(p)
    /\ fr[p].encrypted_file_path \in DOMAIN fr[p].fs0
    /\ Len(fr[p].fs0[fr[p].encrypted_file_path]) < Len(MAGIC) + NONCE_SIZE

\* C4: every input shorter than marker plus nonce (16 bytes) makes decrypt_file
\* fail with an error of its own, TruncatedContainer, raised before the marker is
\* compared.
C4_TruncatedContainer ==
    \A p \in Procs :
        (ShortInput(p) /\ Resting(p))
        => /\ ret[p] = Raised("TruncatedContainer")
           /\ "read_header" \notin did[p]

\* C5: decrypt_file never runs the cipher with a key whose decoded length is not
\* KEY_SIZE (32) bytes: such a key text is rejected when it is decoded.
C5_OnlyKeySizeKeys ==
    \A p \in Procs :
        (IsDecrypt(p) /\ "aead" \in did[p]) => Len(fr[p].key) = KEY_SIZE

\* C6: the text encode_key_base64 gives for a 32-byte key has only characters of
\* the URL-safe alphabet (no whitespace, no line break), and decode_key_base64
\* gives the key back from it.
C6_KeyRoundTrip ==
    (kc.stage \in {"text", "decoded"} /\ kc.change = "none" /\ Len(kc.key) = KEY_SIZE)
    => /\ \A i \in 1..Len(kc.text) : kc.text[i] \in UrlSafeChars
       /\ kc.stage = "decoded" => (kc.decoded.ok /\ kc.decoded.val = kc.key)

C6_Witness ==
    /\ kc.stage = "decoded"
    /\ kc.change = "none"
    /\ Len(kc.key) = KEY_SIZE
    /\ \E i \in 1..Len(kc.text) : kc.text[i] = "-"
    /\ \E i \in 1..Len(kc.text) : kc.text[i] = "_"
    /\ kc.decoded.ok
    /\ kc.decoded.val = kc.key
IsEncrypt(p) == fr[p].op \in {"encrypt_file", "encrypt_stream_to_file"}

\* C7: every encryption call draws a key and a nonce of its own: no two calls ran
\* the cipher with the same key or with the same nonce, so no (key, nonce) pair is
\* used twice, and the containers two calls wrote for the same plaintext differ.
C7_FreshKeyAndNonce ==
    /\ \A u1 \in uses, u2 \in uses :
          u1.id # u2.id => (u1.key # u2.key /\ u1.nonce # u2.nonce)
    /\ \A w1 \in wrote, w2 \in wrote : w1.id # w2.id => w1.bytes # w2.bytes
    /\ \A p \in Procs :
          (IsEncrypt(p) /\ "aead" \in did[p])
          => /\ {"key", "nonce"} \subseteq did[p]
             /\ [id |-> fr[p].id, key |-> fr[p].key, nonce |-> fr[p].nonce] \in uses

C7_Witness ==
    /\ Cardinality(uses) = 2
    /\ Cardinality(wrote) = 2
    /\ \E p \in Procs : pc[p] = "done" /\ fr[p].op = "encrypt_file" /\ fr[p].id = 2

\* C8: a decrypt_file call that fails leaves the file system as it found it and
\* returns nothing; the output file is opened only once the tag over the whole
\* ciphertext has been verified, and a call that returns has written the complete
\* plaintext to the path it returns.
C8_FailClosed ==
    \A p \in Procs :
        IsDecrypt(p)
        => /\ pc[p] = "failed" => (fs = fr[p].fs0 /\ ret[p].kind = "raise" /\ ret[p].val = <<>>)
           /\ fs # fr[p].fs0 => "open_out" \in did[p]
           /\ "open_out" \in did[p]
                 => /\ "aead" \in did[p]
                    /\ fr[p].ciphertext =
                           AESGCM_encrypt(fr[p].key, fr[p].nonce, fr[p].plaintext)
           /\ pc[p] = "done"
                 => /\ ret[p] = Returned(fr[p].output_path)
                    /\ fs[fr[p].output_path] = fr[p].plaintext

C8_Witness ==
    \E p \in Procs :
        /\ ReadsContainer(p, "single")
        /\ mut[fr[p].encrypted_file_path].kind = "trunc"
        /\ mut[fr[p].encrypted_file_path].pos > Len(MAGIC) + NONCE_SIZE
        /\ WithReturnedKey(p)
        /\ pc[p] = "failed"
        /\ fs = fr[p].fs0

\* C9: the container encrypt_file wrote for a plaintext of n bytes is the marker,
\* the nonce the cipher ran with, and the ciphertext with its tag, in that order and
\* nothing else: 4 + 12 + n + 16 bytes.
C9_SingleShotLayout ==
    \A path \in DOMAIN made :
        made[path].kind = "single"
        => LET m == made[path]
               c == fs[path]
           IN  /\ c = MAGIC \o m.nonce \o AESGCM_encrypt(m.key, m.nonce, m.plaintext)
               /\ Len(c) = Len(MAGIC) + NONCE_SIZE + Len(m.plaintext) + TAG_SIZE
               /\ SubSeq(c, 1, Len(MAGIC)) = MAGIC
               /\ SubSeq(c, Len(MAGIC) + 1, Len(MAGIC) + NONCE_SIZE) = m.nonce
               /\ [id |-> m.id, key |-> m.key, nonce |-> m.nonce] \in uses

C9_Witness ==
    \E path \in DOMAIN made :
        /\ made[path].kind = "single"
        /\ Len(made[path].plaintext) = 57
        /\ Len(fs[path]) = 89

\* C10: encrypt_stream_to_file writes nothing before the nonce; while it reads, the
\* sink holds the nonce followed by the ciphertext of exactly the bytes encrypted so
\* far, in source order; the cipher is finalized only after the source is exhausted;
\* and at the end the sink is nonce, ciphertext, and one tag over the whole
\* ciphertext as its last 16 bytes: 12 + n + 16 bytes.
C10_StreamWriteOrder ==
    \A p \in Procs :
        fr[p].op = "encrypt_stream_to_file"
        => LET f    == fr[p]
               e    == f.encryptor
               n    == Len(f.plaintext)
               sink == IF f.output_path \in DOMAIN fs THEN fs[f.output_path] ELSE <<>>
               body == SubSeq(sink, NONCE_SIZE + 1, NONCE_SIZE + n)
           IN  /\ pc[p] \in {"es_key", "es_nonce", "es_cipher", "es_open"} => fs = f.fs0
               /\ pc[p] = "es_write_nonce" => sink = <<>>
               /\ pc[p] \in {"es_read", "es_update", "es_finalize", "es_write_tag"}
                     => sink = f.nonce \o CtrXor(f.key, f.nonce, 0, SubSeq(f.plaintext, 1, e.pos))
               /\ pc[p] = "es_read" => e.pos = n - Len(f.file_like)
               /\ pc[p] = "es_update"
                     => (f.chunk # <<>> /\ e.pos + Len(f.chunk) = n - Len(f.file_like))
               /\ pc[p] \in {"es_finalize", "es_write_tag", "es_return", "done"}
                     => (f.file_like = <<>> /\ e.pos = n)
               /\ e.finalized <=> pc[p] \in {"es_write_tag", "es_return", "done"}
               /\ pc[p] \in {"es_return", "done"}
                     => /\ Len(sink) = NONCE_SIZE + n + TAG_SIZE
                        /\ SubSeq(sink, 1, NONCE_SIZE) = f.nonce
                        /\ body = CtrXor(f.key, f.nonce, 0, f.plaintext)
                        /\ SubSeq(sink, NONCE_SIZE + n + 1, Len(sink))
                               = MakeTag(f.key, f.nonce, GHash(f.key, body), n)

C10_Witness ==
    \E p \in Procs :
        /\ fr[p].op = "encrypt_stream_to_file"
        /\ pc[p] = "es_return"
        /\ Len(fr[p].plaintext) = 3
        /\ Len(fr[p].ct) = 1
        /\ Len(fs[fr[p].output_path]) = NONCE_SIZE + 3 + TAG_SIZE

\* The call of p is a streaming encryption that has written its whole container.
StreamWritten(p) ==
    /\ fr[p].op = "encrypt_stream_to_file"
    /\ pc[p] \in {"es_return", "done"}

\* C11: a streaming encryption that succeeds returns, as its first component, the
\* number of bytes it wrote to the sink (nonce, ciphertext and tag), and as its
\* second the text of the key.
C11_ReturnsBytesWritten ==
    \A p \in Procs :
        (StreamWritten(p) /\ pc[p] = "done")
        => /\ ret[p].kind = "ok"
           /\ ret[p].val[1] \notin DOMAIN fs            \* a count, not the name of a file
           /\ ret[p].val[1] = Len(fs[fr[p].output_path])
           /\ ret[p].val[2] = encode_key_base64(fr[p].key)

\* C12: however the source splits the plaintext into reads, the bytes
\* encrypt_stream_to_file writes behind the nonce are the ciphertext and tag that
\* one whole-buffer AESGCM encryption under the same key and nonce gives; so a
\* whole-buffer decryption of them, with the key decoded from the returned text
\* and the first 12 bytes of the sink as nonce, gives the plaintext back.
C12_ChunkingIndependent ==
    \A p \in Procs :
        StreamWritten(p)
        => LET f    == fr[p]
               sink == fs[f.output_path]
               rest == SubSeq(sink, NONCE_SIZE + 1, Len(sink))
               k    == decode_key_base64(encode_key_base64(f.key))
               d    == AESGCM_decrypt(k.val, SubSeq(sink, 1, NONCE_SIZE), rest)
           IN  /\ rest = AESGCM_encrypt(f.key, f.nonce, f.plaintext)
               /\ k.ok
               /\ d.ok
               /\ d.val = f.plaintext
               /\ pc[p] = "done" => ret[p].val[2] = encode_key_base64(f.key)

C12_Witness ==
    \E p \in Procs :
        /\ StreamWritten(p)
        /\ pc[p] = "done"
        /\ Len(fr[p].plaintext) = 3
        /\ Len(fr[p].ct) = 2
        /\ SubSeq(fs[fr[p].output_path], NONCE_SIZE + 1, Len(fs[fr[p].output_path]))
               = AESGCM_encrypt(fr[p].key, fr[p].nonce, fr[p].plaintext)

\* The container the call of p reads came from the streaming encryption and its
\* nonce does (not) start with the bytes of the marker.
StreamNonceIsMarker(p) ==
    SubSeq(made[fr[p].encrypted_file_path].nonce, 1, Len(MAGIC)) = MAGIC

Finalized(p) ==
    IF fr[p].op = "encrypt_stream_to_file" THEN "finalize" \in did[p] ELSE "aead" \in did[p]

\* What holds at every point of an encryption call.
C14_StateOrder ==
    \A p \in Procs :
        IsEncrypt(p)
        => /\ "nonce" \in did[p] => "key" \in did[p]
           /\ "aead" \in did[p] => {"key", "nonce"} \subseteq did[p]
           /\ (fs # fr[p].fs0 \/ "write" \in did[p]) => {"key", "nonce", "aead"} \subseteq did[p]
           /\ "key" \in did[p] <=> fr[p].key # <<>>
           /\ "nonce" \in did[p] <=> fr[p].nonce # <<>>
           /\ ret[p].kind = "ok"
                 => /\ pc[p] = "done"
                    /\ Finalized(p)
                    /\ "write" \in did[p]
                    /\ ret[p].val[2] = encode_key_base64(fr[p].key)
           /\ pc[p] = "failed" => (ret[p].kind = "raise" /\ ret[p].val = <<>>)
           /\ pc[p] = "done" => ret[p].kind = "ok"

\* What holds of every step of an encryption call: the key and the nonce are
\* drawn once, and a call that has ended, failed or not, takes no further step.
C14_StepOrder ==
    \A p \in Procs :
        (IsEncrypt(p) /\ fr'[p].id = fr[p].id)
        => /\ fr[p].key # <<>> => fr'[p].key = fr[p].key
           /\ fr[p].nonce # <<>> => fr'[p].nonce = fr[p].nonce
           /\ did[p] \subseteq did'[p]
           /\ pc[p] \in {"done", "failed"} => (pc'[p] = pc[p] /\ ret'[p] = ret[p])

\* C14: in every run of encrypt_file and encrypt_stream_to_file the key is
\* generated before the nonce, both before the cipher is invoked and before the
\* first byte reaches the sink; the key text is returned only after the cipher has
\* produced its tag; a call that fails returns neither key nor path and is not
\* retried.
C14_EncryptionOrder == []C14_StateOrder /\ [][C14_StepOrder]_vars

C14_Witness ==
    \E p \in Procs :
        /\ fr[p].op = "encrypt_stream_to_file"
        /\ fr[p].output_path = NoDirPath
        /\ {"key", "nonce", "aead"} \subseteq did[p]
        /\ pc[p] = "failed"
        /\ ret[p] = Raised("FileNotFoundError")
        /\ fs = fr[p].fs0

\* What decrypt_file does with the bytes c and the key text kt when nothing else
\* runs: the plaintext it writes, or the error it raises.
DecryptAlone(c, kt) ==
    IF ~df_header_ok(ReadAt(c, 1, Len(MAGIC)))
    THEN [ok |-> FALSE, val |-> <<>>, err |-> "ValueError:MAGIC"]
    ELSE LET k == decode_key_base64(kt) IN
         IF ~k.ok THEN [ok |-> FALSE, val |-> <<>>, err |-> k.err]
         ELSE IF ~AESGCM_KeyOk(k.val) THEN [ok |-> FALSE, val |-> <<>>, err |-> "ValueError:key"]
         ELSE AESGCM_decrypt(k.val, ReadAt(c, Len(MAGIC) + 1, NONCE_SIZE),
                             ReadAt(c, Len(MAGIC) + NONCE_SIZE + 1, Len(c)))

C15_TempFilesReleased ==
    flow.at = "end"
    => \A t \in flow.temps :
          t \notin DOMAIN fs \/ (flow.kind = "sender" /\ flow.keep_local)

\* The number of calls for ip that were admitted at an instant in [from, to].
AdmittedIn(ip, from, to) ==
    Cardinality({i \in 1..Len(rl.admitted[ip]) :
                    rl.admitted[ip][i] >= from /\ rl.admitted[ip][i] <= to})

\* What holds after every sequence of calls: no window of REQUEST_WINDOW_SECONDS
\* holds more than MAX_REQUESTS_PER_WINDOW admitted calls of one caller, and the
\* log of a caller is its admitted timestamps that have not been pruned.
C17_WindowBound ==
    \A ip \in Ips :
        /\ \A a \in 0..rl.now :
              AdmittedIn(ip, a, a + REQUEST_WINDOW_SECONDS) <= MAX_REQUESTS_PER_WINDOW
        /\ Len(LogGet(rl.log, ip)) <= MAX_REQUESTS_PER_WINDOW
        /\ \A i \in 1..Len(LogGet(rl.log, ip)) : rl.log[ip][i] <= rl.now

\* What holds of every call: the decision follows from the caller's own admitted
\* calls of the last REQUEST_WINDOW_SECONDS; a rejected call adds no timestamp and
\* an admitted call adds its own; the caller's log is left without timestamps
\* older than the window; the other callers' entries are left as they were.
C17_CallEffect ==
    \A ip \in Ips :
        rl'.ncalls[ip] = rl.ncalls[ip] + 1
        => LET now    == rl'.now
               before == LogGet(rl.log, ip)
               after  == rl'.log[ip]
               kept   == SelectSeq(before, LAMBDA t : t >= now - REQUEST_WINDOW_SECONDS)
               recent == Cardinality({i \in 1..Len(rl.admitted[ip]) :
                                         rl.admitted[ip][i] >= now - REQUEST_WINDOW_SECONDS})
           IN  /\ now >= rl.now
               /\ rl'.last.ip = ip
               /\ rl'.last.result <=> (recent >= MAX_REQUESTS_PER_WINDOW)
               /\ rl'.last.result => (after = kept /\ rl'.admitted[ip] = rl.admitted[ip])
               /\ ~rl'.last.result
                     => (after = Append(kept, now) /\ rl'.admitted[ip] = Append(rl.admitted[ip], now))
               /\ \A i \in 1..Len(after) : after[i] >= now - REQUEST_WINDOW_SECONDS
               /\ \A other \in Ips \ {ip} :
                     /\ (other \in DOMAIN rl'.log) <=> (other \in DOMAIN rl.log)
                     /\ LogGet(rl'.log, other) = LogGet(rl.log, other)
                     /\ rl'.admitted[other] = rl.admitted[other]

\* C17: after any sequence of _rate_limited calls at non-decreasing times, no
\* 60-second window holds more than 30 admitted calls of one caller; a rejected
\* call adds no timestamp, every call prunes the timestamps older than the window,
\* and a call for one caller changes neither the log entry nor the decision of
\* another.
C17_SlidingWindow == []C17_WindowBound /\ [][C17_CallEffect]_vars

\* The busy caller has been rejected with a full window and admitted again once
\* the window had moved on, while the other caller was admitted.
C17_Witness ==
    /\ Len(rl.admitted["a"]) > MAX_REQUESTS_PER_WINDOW
    /\ rl.ncalls["a"] > Len(rl.admitted["a"])
    /\ Len(rl.log["a"]) < Len(rl.admitted["a"])
    /\ Len(rl.admitted["b"]) = rl.ncalls["b"]
    /\ rl.ncalls["b"] > 0

\* The token, bucket and object key the request in hand carries.
CarriedToken == Or(web.req.form.token, web.req.header)
CarriedField(name) == Or(web.req.form[name], web.req.object[name])

DeleteNeedsToken ==
    /\ web.called => /\ Truthy(CarriedToken)
                     /\ CarriedToken = web.DELETE_TOKEN
                     /\ Truthy(CarriedField("bucket"))
                     /\ Truthy(CarriedField("key"))
    /\ web.DELETE_TOKEN = Str("") => web.deleted = {}
    /\ (web.at = "done" /\ web.req.json \in {"none", "object"}
            /\ (~Truthy(CarriedToken) \/ CarriedToken # web.DELETE_TOKEN))
          => web.status = 401
====
